---------------------------- MODULE Spec2Model ----------------------------
(***************************************************************************)
(* A model of the AI-Travel-Planner aggregation core:                      *)
(*   agents/iata_finder.py    the location resolver and its dataset load   *)
(*   agents/hotel_finder.py   get_hotels, statement by statement           *)
(*   agents/flight_finder.py, weather_checker.py, geoapify_agent.py        *)
(*   travel_pipeline.py       the cached wrappers and vacation_plan        *)
(*                                                                         *)
(* Python values are tagged records: a list is [type |-> "list", items],   *)
(* a dict is [type |-> "dict", d] with d a record of its keys, a str is    *)
(* [type |-> "str", s] and an exception leaving a function is              *)
(* [type |-> "raise", exc].  Text is a sequence of characters where the    *)
(* code looks inside it (city names) and a TLA+ string otherwise.          *)
(***************************************************************************)
EXTENDS Integers, Sequences, FiniteSets, TLC

VARIABLES
    \* agents/iata_finder.py
    csv,            \* data/airport-codes.csv as read, or FileMissing
    df_airports,    \* the module global: Unloaded, NoneValue, or the prepared rows
    r_city,         \* argument of the last direct get_location_codes call
    r_result,       \* what that call returned
    \* agents/hotel_finder.py: one activation of get_hotels
    h_pc,           \* "idle", "search" (line 48), "rates" (line 59), "returned"
    h_args,         \* the arguments of the call
    hotels_data,    \* line 50
    h_i,            \* position of the loop of line 59 in hotels_data[:3]
    hotels,         \* line 55, as appended to at line 100
    h_lookups,      \* ids of the hotels a rate request was posted for (line 72)
    h_result,       \* what the call returned, or raised
    \* travel_pipeline.py
    now,            \* the clock the cache reads, in seconds
    cache,          \* the entries of the five st.cache_data wrappers
    c_last,         \* the last direct call of a wrapper: arguments and what came back
    model,          \* the module global of lines 15-19
    pc,             \* where vacation_plan stands, "idle" between runs
    req,            \* the arguments of the run
    plan,           \* the locals of the run
    result,         \* what the run returned, or raised
    calls,          \* the cached_* wrappers the run has called, in order
    invoked,        \* the functions behind them that really ran, with the provider's reply
    \* app.py
    shown,          \* what lines 87-125 did with the outcome of the last run
    \* an adapter called on its own
    a_call,         \* the adapter, its arguments and the provider's reply
    a_result        \* what the call returned, or raised

resolverVars == <<csv, df_airports, r_city, r_result>>
hotelVars == <<h_pc, h_args, hotels_data, h_i, hotels, h_lookups, h_result>>
cacheVars == <<now, cache, c_last>>
planVars == <<model, pc, req, plan, result, calls, invoked, shown>>
adapterVars == <<a_call, a_result>>

vars == <<resolverVars, hotelVars, cacheVars, planVars, adapterVars>>

-----------------------------------------------------------------------------
(* Python values *)

NoneValue == [type |-> "NoneType"]
List(s) == [type |-> "list", items |-> s]
Dict(d) == [type |-> "dict", d |-> d]
Str(s) == [type |-> "str", s |-> s]
Raise(e) == [type |-> "raise", exc |-> e]
Num(n) == [type |-> "number", v |-> n]
\* {}
EmptyDict == <<>>

IsDict(v) == v.type = "dict"
IsList(v) == v.type = "list"
IsRaise(v) == v.type = "raise"
\* key in v, for v a dict
HasKey(v, key) == IsDict(v) /\ key \in DOMAIN v.d

Range(s) == {s[i] : i \in DOMAIN s}
Min(a, b) == IF a <= b THEN a ELSE b

\* s[:n] for n >= 0
Take(s, n) == SubSeq(s, 1, Min(n, Len(s)))

\* d.get(key, default), for d a record of the keys of a dict
Get(d, key, default) == IF key \in DOMAIN d THEN d[key] ELSE default

\* sorted(s, key=Key): ascending and stable, equal keys keep their order.
SortedBy(s, Key(_)) ==
    LET place(i) == 1 + Cardinality({j \in DOMAIN s :
                        \/ Key(s[j]) < Key(s[i])
                        \/ Key(s[j]) = Key(s[i]) /\ j < i})
    IN [p \in DOMAIN s |-> s[CHOOSE i \in DOMAIN s : place(i) = p]]

-----------------------------------------------------------------------------
(* str.lower on the letters the model uses *)

UpperLetters == <<"A", "I", "L", "M", "O", "P", "R", "S", "T", "N", "B", "E">>
LowerLetters == <<"a", "i", "l", "m", "o", "p", "r", "s", "t", "n", "b", "e">>

LowerChar(c) ==
    IF \E i \in DOMAIN UpperLetters : UpperLetters[i] = c
    THEN LowerLetters[CHOOSE i \in DOMAIN UpperLetters : UpperLetters[i] = c]
    ELSE c

\* The text as it is, case kept.
LowerKeepsCase(s) == s

Lower(s) == [i \in DOMAIN s |-> LowerChar(s[i])]

Paris == <<"P", "a", "r", "i", "s">>
PARIS == <<"P", "A", "R", "I", "S">>
paris == <<"p", "a", "r", "i", "s">>
Rome == <<"R", "o", "m", "e">>
Lisbon == <<"L", "i", "s", "b", "o", "n">>
Atlantis == <<"A", "t", "l", "a", "n", "t", "i", "s">>
EmptyText == <<>>

-----------------------------------------------------------------------------
(* agents/iata_finder.py *)

NaN == "NaN"
FileMissing == [type |-> "FileNotFoundError"]
Unloaded == [type |-> "not imported"]

\* Rows of the reference file in the model: row i carries the i-th code and country.
MaxRows == 3
IataByRow == <<"CDG", "ORY", "PAR", "PRX", "BVA">>
CountryByRow == <<"FR", "FX", "FR", "US", "FR">>
Municipalities == {PARIS, Rome}
EntryTypes == {NaN, "closed", "large_airport", "medium_airport", "small_airport", "heliport"}

CsvRowsAt(i) ==
    {[ident |-> i, municipality |-> Paris, iata_code |-> NaN, type |-> NaN,
      iso_country |-> CountryByRow[i]]}
    \cup
    {[ident |-> i, municipality |-> m, iata_code |-> IataByRow[i], type |-> t,
      iso_country |-> CountryByRow[i]] : m \in Municipalities, t \in EntryTypes}

RECURSIVE CsvPrefixes(_)
CsvPrefixes(n) ==
    IF n = 0 THEN {<<>>}
    ELSE {Append(f, row) : f \in CsvPrefixes(n - 1), row \in CsvRowsAt(n)}

CsvFiles == {List(f) : f \in CsvPrefixes(MaxRows)}

airport_type_order == <<"city_code", "large_airport", "medium_airport", "small_airport">>

\* The code of a type in pd.Categorical(categories=airport_type_order): a type that
\* is no category becomes NaN, which sort_values puts last.
TypeCat(type) ==
    IF \E i \in DOMAIN airport_type_order : airport_type_order[i] = type
    THEN CHOOSE i \in DOMAIN airport_type_order : airport_type_order[i] = type
    ELSE Len(airport_type_order) + 1

\* PrepareRow without line 27: a blank type is left blank, hence no category.
PrepareRowBlankTypeKept(row) ==
    [row EXCEPT !.municipality = IF row.municipality = NaN THEN EmptyText
                                 ELSE row.municipality]

\* Lines 19-27: the rows kept, with the blanks filled.
PrepareRow(row) ==
    [row EXCEPT !.type = IF row.type = NaN THEN "city_code" ELSE row.type,
                !.municipality = IF row.municipality = NaN THEN EmptyText
                                 ELSE row.municipality]

KeptRows(file) ==
    {PrepareRow(file[i]) : i \in {j \in DOMAIN file :
        file[j].iata_code # NaN /\ file[j].type # "closed"}}

IsSortedByTypeCat(df) ==
    \A i, j \in DOMAIN df : i < j => TypeCat(df[i].type) <= TypeCat(df[j].type)

\* Line 30: sort_values(by='type_cat') with the default, unstable sort: any order of
\* the kept rows that ascends by category can come out.
SortValues(rows) ==
    {df \in [1..Cardinality(rows) -> rows] :
        Range(df) = rows /\ IsSortedByTypeCat(df)}

\* Lines 5-30: what the import leaves in df_airports.
LoadedFrames(file) ==
    IF file = FileMissing THEN {NoneValue}
    ELSE {List(df) : df \in SortValues(KeptRows(file.items))}

Matches(df, city_name) ==
    SelectSeq(df, LAMBDA row : Lower(row.municipality) = Lower(city_name))

NotFoundMessage == "Could not find location codes for {city_name} in the local database."

get_location_codes(frame, city_name) ==
    IF frame = NoneValue
    THEN Dict([error |-> "Airport database not loaded."])
    ELSE LET matches == Matches(frame.items, city_name)
         IN IF matches # <<>>
            THEN Dict([iata |-> matches[1].iata_code, country |-> matches[1].iso_country])
            ELSE Dict([error |-> NotFoundMessage, city_name |-> city_name])

-----------------------------------------------------------------------------
(* agents/hotel_finder.py *)

MaxCandidates == 4
MaxPrice == 2
MaxTopN == 2
PlanTopN == 5
RateLookupCap == 3

\* What the provider lists for a city: the first n hotels of its catalogue.
HotelListing(n) ==
    [i \in 1..n |-> [id |-> i, name |-> <<"Hotel", i>>, address |-> <<"Street", i>>]]

\* The first request (lines 48-50): requests.get or raise_for_status raises, the
\* body is no JSON, or the JSON comes with or without its "data" key.
SearchReplies ==
    {[kind |-> "raises", exc |-> "RequestException"],
     [kind |-> "raises", exc |-> "ValueError"],
     [kind |-> "json", body |-> [status |-> "ok"]]}
    \cup {[kind |-> "json", body |-> [data |-> HotelListing(n)]] : n \in 0..MaxCandidates}

\* One rate object of the payload of /hotels/rates.
RateObjects ==
    {[rateId |-> "r"],
     [rateId |-> "r", retailRate |-> [taxes |-> <<>>]],
     [rateId |-> "r", retailRate |-> [total |-> <<>>]],
     [rateId |-> "r", retailRate |-> [total |-> <<[currency |-> "EUR"]>>]]}
    \cup {[rateId |-> "r", retailRate |-> [total |-> <<[amount |-> p, currency |-> "EUR"]>>]] :
            p \in 1..MaxPrice}

RatePayloads ==
    {[status |-> "ok"],
     [data |-> <<>>],
     [data |-> <<[hotelId |-> "h"]>>],
     [data |-> <<[hotelId |-> "h", roomTypes |-> <<>>]>>],
     [data |-> <<[hotelId |-> "h", roomTypes |-> <<[roomTypeId |-> "t"]>>]>>],
     [data |-> <<[hotelId |-> "h", roomTypes |-> <<[roomTypeId |-> "t", rates |-> <<>>]>>]>>]}
    \cup {[data |-> <<[hotelId |-> "h", roomTypes |-> <<[roomTypeId |-> "t", rates |-> <<r>>]>>]>>] :
            r \in RateObjects}

\* The rate request of one candidate (line 72): requests.post raises, or a response
\* comes with a status code and a body that is JSON or not.
RateReplies ==
    {[kind |-> "raises", exc |-> "RequestException"]}
    \cup {[kind |-> "response", status_code |-> c, json |-> NoneValue] : c \in {200, 404, 500}}
    \cup {[kind |-> "response", status_code |-> c, json |-> Dict(body)] :
            c \in {200}, body \in RatePayloads}

\* response.json() on a body that is no JSON raises JSONDecodeError, a ValueError.
JsonOf(reply) == IF reply.json = NoneValue THEN Raise("ValueError") ELSE reply.json

\* Lines 74-81: the price of a candidate from its rate response: an amount,
\* NoneValue, or the exception the statements raise.
PriceOf(reply) ==
    IF reply.status_code # 200 THEN NoneValue
    ELSE IF IsRaise(JsonOf(reply)) THEN JsonOf(reply)
    ELSE LET rates_json == JsonOf(reply).d
             rates_data == Get(rates_json, "data", <<>>)
         IN IF rates_data = <<>> \/ Get(rates_data[1], "roomTypes", <<>>) = <<>>
            THEN NoneValue
            ELSE LET room == rates_data[1].roomTypes[1]
                 IN IF Get(room, "rates", <<>>) = <<>>
                    THEN NoneValue
                    ELSE LET rate_info == room.rates[1]
                             total == Get(Get(rate_info, "retailRate", EmptyDict),
                                          "total", <<EmptyDict>>)
                         IN IF total = <<>> THEN Raise("IndexError")
                            ELSE IF "amount" \in DOMAIN total[1]
                            THEN Num(total[1].amount)
                            ELSE NoneValue

\* Lines 86-99.
HotelData(hotel, price, currency) ==
    [name |-> Get(hotel, "name", NoneValue),
     address |-> Get(hotel, "address", NoneValue),
     city |-> Get(hotel, "city", NoneValue),
     country |-> Get(hotel, "country", NoneValue),
     rating |-> Get(hotel, "rating", NoneValue),
     reviewCount |-> Get(hotel, "reviewCount", NoneValue),
     main_photo |-> Get(hotel, "main_photo", NoneValue),
     website |-> Get(hotel, "website", NoneValue),
     price |-> price,
     currency |-> currency,
     description |-> Get(hotel, "hotelDescription", NoneValue),
     stars |-> Get(hotel, "stars", NoneValue)]

PriceKey(h) == h.price

\* Line 102 without sorted(): the priced candidates in provider order.
UnsortedTopN(hs, top_n) == Take(hs, top_n)

\* Line 102.
SortedTopN(hs, top_n) == Take(SortedBy(hs, PriceKey), top_n)

\* Lines 104-107: what an exception raised inside the try block becomes.
HotelsExcept(exc) ==
    CASE exc = "RequestException" -> Dict([error |-> "Error fetching hotels: {e}"])
      [] exc = "ValueError" -> Dict([error |-> "Error parsing response: {ve}"])
      [] OTHER -> Raise(exc)

NoHotelsError == Dict([error |-> "No hotels found for the initial search."])

\* Line 59 without the [:3]: the loop visits every hotel of the search.
CandidatesUncapped == hotels_data

\* Line 59: the candidates the loop visits.
Candidates == Take(hotels_data, RateLookupCap)

HotelsIdle ==
    /\ h_pc = "idle"
    /\ h_args = NoneValue
    /\ hotels_data = <<>>
    /\ h_i = 0
    /\ hotels = <<>>
    /\ h_lookups = <<>>
    /\ h_result = NoneValue

\* Entry of get_hotels (lines 39-45).
EnterGetHotels(args) ==
    /\ h_pc' = "search"
    /\ h_args' = args
    /\ hotels_data' = <<>>
    /\ h_i' = 0
    /\ hotels' = <<>>
    /\ h_lookups' = <<>>
    /\ h_result' = NoneValue

\* Lines 48-57.
HotelsSearch(replies) ==
    /\ h_pc = "search"
    /\ \E reply \in replies :
         IF reply.kind = "raises"
         THEN /\ h_result' = HotelsExcept(reply.exc)
              /\ h_pc' = "returned"
              /\ UNCHANGED <<hotels_data, h_i>>
         ELSE IF Get(reply.body, "data", <<>>) = <<>>
         THEN /\ h_result' = NoHotelsError
              /\ h_pc' = "returned"
              /\ UNCHANGED <<hotels_data, h_i>>
         ELSE /\ hotels_data' = reply.body.data
              /\ h_i' = 1
              /\ h_pc' = "rates"
              /\ UNCHANGED h_result
    /\ UNCHANGED <<h_args, hotels, h_lookups>>

\* One pass of the loop of lines 59-100.
HotelsRate(replies) ==
    /\ h_pc = "rates"
    /\ h_i <= Len(Candidates)
    /\ LET hotel == Candidates[h_i]
       IN /\ h_lookups' = Append(h_lookups, Get(hotel, "id", NoneValue))
          /\ \E reply \in replies :
               IF reply.kind = "raises"
               THEN /\ h_result' = HotelsExcept(reply.exc)
                    /\ h_pc' = "returned"
                    /\ UNCHANGED <<h_i, hotels>>
               ELSE LET price == PriceOf(reply)
                    IN IF price = NoneValue
                       THEN /\ h_i' = h_i + 1
                            /\ UNCHANGED <<h_pc, hotels, h_result>>
                       ELSE IF price.type = "number"
                       THEN /\ hotels' = Append(hotels, HotelData(hotel, price.v, h_args.currency))
                            /\ h_i' = h_i + 1
                            /\ UNCHANGED <<h_pc, h_result>>
                       ELSE /\ h_result' = HotelsExcept(price.exc)
                            /\ h_pc' = "returned"
                            /\ UNCHANGED <<h_i, hotels>>
    /\ UNCHANGED <<h_args, hotels_data>>

\* Line 102, once the loop is over.
HotelsReturn ==
    /\ h_pc = "rates"
    /\ h_i > Len(Candidates)
    /\ h_result' = List(SortedTopN(hotels, h_args.top_n))
    /\ h_pc' = "returned"
    /\ UNCHANGED <<h_args, hotels_data, h_i, hotels, h_lookups>>

-----------------------------------------------------------------------------
(* agents/flight_finder.py *)

Segment(from, to) ==
    [departure |-> [iataCode |-> from, at |-> "t0"], arrival |-> [iataCode |-> to, at |-> "t1"],
     carrierCode |-> "AF", number |-> "1"]

\* Two offers as the provider sends them, the dearer one first and with a stop.
OfferWithStop(to) ==
    [price |-> [total |-> 300],
     itineraries |-> <<[duration |-> "PT5H", segments |-> <<Segment("ARN", "FRA"), Segment("FRA", to)>>],
                       [duration |-> "PT3H", segments |-> <<Segment(to, "ARN")>>]>>]
OfferDirect(to) ==
    [price |-> [total |-> 200],
     itineraries |-> <<[duration |-> "PT3H", segments |-> <<Segment("ARN", to)>>]>>]

\* What amadeus.shopping.flight_offers_search.get does (line 24): it returns a
\* response with data, or raises a ResponseError whose text holds the error codes.
FlightReplies(to) ==
    {[kind |-> "data", data |-> <<OfferWithStop(to), OfferDirect(to)>>],
     [kind |-> "data", data |-> <<>>],
     [kind |-> "data", data |-> <<[id |-> "1"]>>],
     [kind |-> "ResponseError", codes |-> {"NO_FARE_APPLICABLE"}],
     [kind |-> "ResponseError", codes |-> {"NO_COMBINABLE_FARES"}],
     [kind |-> "ResponseError", codes |-> {"SYSTEM_ERROR_HAS_OCCURRED"}]}

\* Lines 39-52.
SegmentsInfo(itinerary) ==
    [i \in DOMAIN itinerary.segments |->
        LET segment == itinerary.segments[i]
        IN [from |-> segment.departure.iataCode,
            to |-> segment.arrival.iataCode,
            departure |-> segment.departure.at,
            arrival |-> segment.arrival.at,
            carrier |-> segment.carrierCode,
            flight_number |-> segment.number,
            duration |-> itinerary.duration]]

\* Lines 35-57.
SimplifiedFlight(offer) ==
    [itineraries |-> [i \in DOMAIN offer.itineraries |-> SegmentsInfo(offer.itineraries[i])],
     total_price |-> offer.price.total]

FlightsError == Dict([error |-> "Error fetching flights: {error}"])

\* Lines 61-68 with the two "no fare" tests removed: every ResponseError is an error.
FlightsExceptNoFareAsError(codes) == FlightsError

\* Lines 61-68.
FlightsExcept(codes) ==
    IF "NO_FARE_APPLICABLE" \in codes \/ "NO_COMBINABLE_FARES" \in codes
    THEN List(<<>>)
    ELSE FlightsError

\* Lines 23-68.
search_flights(reply) ==
    IF reply.kind = "ResponseError" THEN FlightsExcept(reply.codes)
    ELSE IF \E i \in DOMAIN reply.data : ~({"price", "itineraries"} \subseteq DOMAIN reply.data[i])
    THEN Raise("KeyError")
    ELSE List([i \in DOMAIN reply.data |-> SimplifiedFlight(reply.data[i])])

-----------------------------------------------------------------------------
(* agents/weather_checker.py *)

Reading(date, time, temp, description) ==
    [dt_txt |-> <<date, time>>, main |-> [temp |-> temp],
     weather |-> <<[description |-> description]>>]

\* The two requests of lines 40 and 54: one of them raises, the geocoder knows no
\* such city, the forecast has no "list", or the feed arrives.
WeatherReplies ==
    {[kind |-> "raises", exc |-> "RequestException"],
     [kind |-> "geo", geo_data |-> <<>>],
     [kind |-> "forecast", weather_data |-> [cod |-> "404"]],
     [kind |-> "forecast", weather_data |-> [list |-> <<>>]],
     [kind |-> "forecast", weather_data |->
        [list |-> <<Reading("d1", "12:00", 20, "clear"), Reading("d1", "15:00", 22, "clear"),
                    Reading("d2", "12:00", 18, "rain"), Reading("d3", "12:00", 17, "rain"),
                    Reading("d4", "12:00", 19, "clouds")>>]]}

\* entry["dt_txt"].split(" ")[0]
DateOf(entry) == entry.dt_txt[1]

\* Lines 62-70 without the break of lines 71-72: every new date adds a line.
SummaryPositionsNoBreak(feed) ==
    {i \in DOMAIN feed : \A j \in 1..(i - 1) : DateOf(feed[j]) # DateOf(feed[i])}

\* Lines 62-72: the positions of the feed that add a line, in feed order.
SummaryPositions(feed) ==
    LET first == {i \in DOMAIN feed : \A j \in 1..(i - 1) : DateOf(feed[j]) # DateOf(feed[i])}
    IN {i \in first : Cardinality({j \in first : j < i}) < 3}

forecast_summary(feed) ==
    LET keep == SummaryPositions(feed)
        nth(k) == CHOOSE i \in keep : Cardinality({j \in keep : j < i}) = k - 1
    IN [k \in 1..Cardinality(keep) |->
          [date_str |-> DateOf(feed[nth(k)]),
           temp |-> feed[nth(k)].main.temp,
           description |-> feed[nth(k)].weather[1].description]]

\* Lines 31-82, with the API key set.
get_weather_forecast(city, reply) ==
    IF reply.kind = "raises"
    THEN Str(<<[text |-> "Error connecting to weather service: {e}"]>>)
    ELSE IF reply.kind = "geo"
    THEN Str(<<[text |-> "Error: Could not find coordinates for the city '{city}'.", city |-> city]>>)
    ELSE IF "list" \notin DOMAIN reply.weather_data
    THEN Str(<<[text |-> "Error: Forecast data not available for '{city}'.", city |-> city]>>)
    ELSE IF forecast_summary(reply.weather_data.list) = <<>>
    THEN Str(<<[text |-> "Could not generate a forecast for {city}.", city |-> city]>>)
    ELSE Str(<<[text |-> "Forecast for {city}:", city |-> city]>>
             \o forecast_summary(reply.weather_data.list))

-----------------------------------------------------------------------------
(* agents/geoapify_agent.py *)

AttractionLimit == 6
FewAttractions == 2

Place(i) == [properties |-> [name |-> <<"Attraction", i>>, formatted |-> <<"Address", i>>,
                             lat |-> i, lon |-> i, categories |-> <<"tourism">>]]

\* The geocoding request and the places request: the first finds no city or
\* raises, the second raises or answers with up to `limit` features.
AttractionReplies(limit) ==
    {[kind |-> "geocode_error"],
     [kind |-> "raises", exc |-> "RequestException"],
     [kind |-> "places", data |-> [statusCode |-> 401]]}
    \cup {[kind |-> "places", data |-> [features |-> [i \in 1..k |-> Place(i)]]] :
            k \in {0, FewAttractions, limit}}

\* Lines 65-103.
get_tourist_attractions_by_city(city, reply) ==
    IF reply.kind = "geocode_error"
    THEN Dict([error |-> "City not found: {city}", city |-> city])
    ELSE IF reply.kind = "raises"
    THEN Dict([error |-> "Network error while fetching attractions: {e}"])
    ELSE IF "features" \notin DOMAIN reply.data
    THEN Dict([error |-> "Unexpected API response format: {data}"])
    ELSE Dict([results |->
            [i \in DOMAIN reply.data.features |->
                LET props == reply.data.features[i].properties
                IN [name |-> Get(props, "name", "Unnamed"),
                    address |-> Get(props, "formatted", "No address available"),
                    lat |-> Get(props, "lat", NoneValue),
                    lon |-> Get(props, "lon", NoneValue),
                    categories |-> Get(props, "categories", <<>>)]]])

-----------------------------------------------------------------------------
(* travel_pipeline.py, lines 21-41: the st.cache_data wrappers.  Each decorated    *)
(* function has a cache of its own, keyed by the call's arguments; an entry        *)
(* answers calls until ttl seconds after it was stored.  A value the function       *)
(* returns is stored whatever it is (a dict with an "error" key too); an exception *)
(* it raises passes through and nothing is stored.                                 *)

Wrappers == {"get_location_codes", "search_flights", "get_hotels",
             "get_weather_forecast", "get_tourist_attractions_by_city"}

TTL_SHORT == 3600
TTL_LONG == 86400

\* The wrappers all on the ttl of line 22.
TtlSameForAll(w) == TTL_SHORT

\* The ttl= of lines 22, 26, 30, 34 and 39.
Ttl(w) == IF w = "get_location_codes" THEN TTL_LONG ELSE TTL_SHORT

EmptyCache == [w \in Wrappers |-> {}]

IsFresh(e, w, t) == t < e.stored + Ttl(w)

\* The entry that answers a call of w with arguments key at time t, if any.
FreshEntries(c, w, key, t) == {e \in c[w] : e.key = key /\ IsFresh(e, w, t)}

\* A wrapper that keeps only what is no error.
StoreUnlessError(c, w, key, value, t) ==
    IF HasKey(value, "error") THEN c
    ELSE [c EXCEPT ![w] = {e \in c[w] : e.key # key /\ IsFresh(e, w, t)}
                          \cup {[key |-> key, value |-> value, stored |-> t]}]

\* Storing the value a call returned: the entries of w that have expired go, and
\* the entry of key is replaced.
Store(c, w, key, value, t) ==
    [c EXCEPT ![w] = {e \in c[w] : e.key # key /\ IsFresh(e, w, t)}
                     \cup {[key |-> key, value |-> value, stored |-> t]}]

\* What a call of wrapper w returns when the function behind it would return (or
\* raise) outcome, whether that function runs, and the cache afterwards.
IsHit(w, key) == FreshEntries(cache, w, key, now) # {}
CachedReturn(w, key, outcome) ==
    IF IsHit(w, key) THEN (CHOOSE e \in FreshEntries(cache, w, key, now) : TRUE).value
    ELSE outcome
CacheAfter(w, key, outcome) ==
    IF IsHit(w, key) \/ IsRaise(outcome) THEN cache
    ELSE Store(cache, w, key, outcome, now)

-----------------------------------------------------------------------------
(* travel_pipeline.py, lines 43-162: vacation_plan *)

\* A local of vacation_plan that no statement has assigned yet.  The str locals
\* (return_date, the two codes) are held as Str values.
Unbound == [type |-> "unbound"]
Text(t) == Str(<<[text |-> t]>>)

IsLeap(y) == (y % 4 = 0 /\ y % 100 # 0) \/ y % 400 = 0

\* A calendar whose February always has 28 days.
DaysInMonthNoLeapDay(y, m) ==
    IF m = 2 THEN 28
    ELSE IF m \in {4, 6, 9, 11} THEN 30 ELSE 31

DaysInMonth(y, m) ==
    IF m = 2 THEN (IF IsLeap(y) THEN 29 ELSE 28)
    ELSE IF m \in {4, 6, 9, 11} THEN 30 ELSE 31

\* datetime.strptime(start_date, "%Y-%m-%d") succeeds
ValidDate(d) == d[2] \in 1..12 /\ d[3] \in 1..DaysInMonth(d[1], d[2])

NextDay(d) ==
    IF d[3] < DaysInMonth(d[1], d[2]) THEN <<d[1], d[2], d[3] + 1>>
    ELSE IF d[2] < 12 THEN <<d[1], d[2] + 1, 1>>
    ELSE <<d[1] + 1, 1, 1>>

RECURSIVE AddDays(_, _)
\* start_date_obj + timedelta(days=n)
AddDays(d, n) == IF n = 0 THEN d ELSE AddDays(NextDay(d), n - 1)

Destinations == {Paris, Atlantis}
StartDates == {<<2025, 12, 28>>, <<2025, 2, 30>>}
Requests ==
    {[origin_iata |-> "ARN", destination_city |-> c, vacation_type |-> "Relaxing",
      adults |-> 2, children |-> 0, duration |-> 7, start_date |-> d, budget_eur |-> 3000] :
        c \in Destinations, d \in StartDates}

PlanFields == {"return_date", "location_codes", "destination_iata", "destination_country_code",
               "flights", "flight_details", "hotels", "hotel_details", "weather",
               "attractions", "attraction_list", "prompt"}
FreshPlan == [f \in PlanFields |-> Unbound]

\* The reference file of the runs: the Paris entries of the scenario.
PlanCsv ==
    List(<<[ident |-> 1, municipality |-> Paris, iata_code |-> "CDG", type |-> "large_airport",
            iso_country |-> "FR"],
           [ident |-> 2, municipality |-> Paris, iata_code |-> "PAR", type |-> NaN,
            iso_country |-> "FR"],
           [ident |-> 3, municipality |-> Lisbon, iata_code |-> "LIS", type |-> "large_airport",
            iso_country |-> "PT"]>>)

\* Line 53, never true: the run goes on without the model.
ModelNeverMissing(m) == FALSE

\* Line 53: not model.
ModelMissing(m) == m = NoneValue

\* Line 65, never true: the run goes on whatever the resolver returned.
ResolveNeverFails(location_codes) == FALSE

\* Line 65.
ResolveFailed(location_codes) == HasKey(location_codes, "error")

FlightPriceKey(f) == f.total_price

NoFlightsText == Text("No flights found or an error occurred.")
NoHotelsText == Text("No hotels found or an error occurred.")

\* Line 78: flights.sort(key=...), when line 77 lets it run.
FlightsAfterSort(flights) ==
    IF IsList(flights) /\ flights.items # <<>>
    THEN List(SortedBy(flights.items, FlightPriceKey))
    ELSE flights

\* Lines 76-82.
FlightDetails(flights) ==
    IF IsList(flights) /\ flights.items # <<>>
    THEN LET sorted == SortedBy(flights.items, FlightPriceKey)
         IN IF \E i \in DOMAIN sorted : sorted[i].itineraries = <<>>
            THEN Raise("IndexError")
            ELSE Str([i \in DOMAIN sorted |->
                    [text |-> "  - Option {i+1}: {total_price} EUR, Stops: {stops}",
                     option |-> i,
                     total_price |-> sorted[i].total_price,
                     stops |-> Len(sorted[i].itineraries[1]) - 1]])
    ELSE NoFlightsText

\* Lines 94-99 with line 95 reading "if hotels:": an error dict is iterated as if it
\* were the list of hotels.
HotelDetailsNoDictTest(hs) ==
    IF IsDict(hs) THEN Raise("TypeError")
    ELSE IF hs.items # <<>>
    THEN Str([i \in DOMAIN hs.items |->
            [text |-> "  - {name}, Address: {address}, Price: {price} {currency}",
             name |-> hs.items[i].name, address |-> hs.items[i].address,
             price |-> hs.items[i].price, currency |-> hs.items[i].currency]])
    ELSE NoHotelsText

\* Lines 94-99.
HotelDetails(hs) ==
    IF IsList(hs) /\ hs.items # <<>>
    THEN Str([i \in DOMAIN hs.items |->
            [text |-> "  - {name}, Address: {address}, Price: {price} {currency}",
             name |-> hs.items[i].name, address |-> hs.items[i].address,
             price |-> hs.items[i].price, currency |-> hs.items[i].currency]])
    ELSE NoHotelsText

Placeholder(destination_city, i) ==
    [text |-> "Popular attraction in {destination_city} #{i+1}",
     destination_city |-> destination_city, number |-> i]

\* Lines 106-108.
AttractionList(attractions, destination_city) ==
    IF HasKey(attractions, "results") /\ attractions.d.results # <<>>
    THEN [i \in DOMAIN attractions.d.results |-> [name |-> attractions.d.results[i].name]]
    ELSE [i \in 1..AttractionLimit |-> Placeholder(destination_city, i)]

\* Lines 111-159: the f-string, which reads attraction_list[0] to attraction_list[5].
PromptOf(r, p) ==
    IF Len(p.attraction_list) < AttractionLimit THEN Raise("IndexError")
    ELSE Dict([vacation_type |-> r.vacation_type, destination_city |-> r.destination_city,
               adults |-> r.adults, children |-> r.children, duration |-> r.duration,
               start_date |-> r.start_date, budget_eur |-> r.budget_eur,
               origin_iata |-> r.origin_iata, destination_iata |-> p.destination_iata.s,
               flight_details |-> p.flight_details, hotel_details |-> p.hotel_details,
               weather |-> p.weather,
               top_attractions |-> SubSeq(p.attraction_list, 1, AttractionLimit)])

\* Lines 161-162: the collaborator answers with text, answers with no content
\* (response.text raises ValueError), or the request fails.
GenerationOutcomes ==
    {Text("**Destination Overview: ..."), Raise("ValueError"), Raise("GoogleAPICallError")}

\* The arguments of the five wrapper calls (lines 64, 72-75, 85-93, 102, 105).
LocationKey(r) == [city_name |-> r.destination_city]
FlightsKey(r, p) ==
    [origin |-> r.origin_iata, destination |-> p.destination_iata.s,
     departure_date |-> r.start_date, return_date |-> p.return_date.s,
     adults |-> r.adults, top_n |-> PlanTopN]
HotelsKey(r, p) ==
    [city |-> r.destination_city, country |-> p.destination_country_code.s,
     checkin |-> r.start_date, checkout |-> p.return_date.s,
     adults |-> r.adults, children |-> r.children, top_n |-> PlanTopN]
WeatherKey(r) == [city |-> r.destination_city]
AttractionsKey(r) == [city |-> r.destination_city, limit |-> AttractionLimit]

\* The provider behaviours the runs meet.
PlanSearchReplies ==
    {[kind |-> "raises", exc |-> "RequestException"],
     [kind |-> "json", body |-> [data |-> HotelListing(0)]],
     [kind |-> "json", body |-> [data |-> HotelListing(2)]]}
PlanRateReplies ==
    {[kind |-> "response", status_code |-> 404, json |-> NoneValue]}
    \cup {[kind |-> "response", status_code |-> 200,
           json |-> Dict([data |-> <<[roomTypes |-> <<[rates |-> <<[retailRate |->
                        [total |-> <<[amount |-> p]>>]]>>]>>]>>])] : p \in {1}}
PlanWeatherReplies ==
    {r \in WeatherReplies : r.kind = "raises" \/ (r.kind = "forecast" /\
        "list" \in DOMAIN r.weather_data /\ r.weather_data.list # <<>>)}

PlanAttractionReplies(limit) ==
    {r \in AttractionReplies(limit) : r.kind \in {"geocode_error", "places"} /\
        "features" \in DOMAIN (IF r.kind = "places" THEN r.data ELSE [features |-> <<>>])}

PlanInstants == {0, TTL_SHORT, TTL_LONG}

ResolverIdle ==
    /\ r_city = NoneValue
    /\ r_result = NoneValue

CacheIdle ==
    /\ now = 0
    /\ cache = EmptyCache
    /\ c_last = NoneValue

AdaptersIdle ==
    /\ a_call = NoneValue
    /\ a_result = NoneValue

PlanIdle ==
    /\ shown = NoneValue
    /\ model = NoneValue
    /\ pc = "idle"
    /\ req = NoneValue
    /\ plan = FreshPlan
    /\ result = NoneValue
    /\ calls = <<>>
    /\ invoked = <<>>

Returns(value) ==
    /\ result' = value
    /\ pc' = "done"

\* Lines 53-60.
Begin ==
    /\ pc = "idle"
    /\ \E r \in Requests :
         /\ req' = r
         /\ IF ModelMissing(model)
            THEN /\ Returns(Text("Error: Gemini API key not configured."))
                 /\ plan' = FreshPlan
            ELSE IF ~ValidDate(r.start_date)
            THEN /\ Returns(Text("Error: Invalid date format provided."))
                 /\ plan' = FreshPlan
            ELSE /\ plan' = [FreshPlan EXCEPT !.return_date = Str(AddDays(r.start_date, r.duration))]
                 /\ pc' = "resolve"
                 /\ result' = NoneValue
    /\ calls' = <<>>
    /\ invoked' = <<>>
    /\ shown' = NoneValue
    /\ UNCHANGED <<model, resolverVars, hotelVars, cacheVars, adapterVars>>

\* Lines 64-69.
Resolve ==
    /\ pc = "resolve"
    /\ LET w == "get_location_codes"
           key == LocationKey(req)
           location_codes == CachedReturn(w, key, get_location_codes(df_airports, key.city_name))
       IN /\ calls' = Append(calls, w)
          /\ invoked' = IF IsHit(w, key) THEN invoked ELSE Append(invoked, [fn |-> w])
          /\ cache' = CacheAfter(w, key, get_location_codes(df_airports, key.city_name))
          /\ IF ResolveFailed(location_codes)
             THEN /\ Returns(Str(<<[text |-> "Could not generate plan. {error}",
                                    error |-> location_codes.d.error]>>))
                  /\ plan' = [plan EXCEPT !.location_codes = location_codes]
             ELSE IF ~HasKey(location_codes, "iata")
             THEN /\ Returns(Raise("KeyError"))
                  /\ plan' = [plan EXCEPT !.location_codes = location_codes]
             ELSE /\ plan' = [plan EXCEPT !.location_codes = location_codes,
                                          !.destination_iata = Str(location_codes.d.iata),
                                          !.destination_country_code =
                                              Str(location_codes.d.country)]
                  /\ pc' = "flights"
                  /\ UNCHANGED result
    /\ UNCHANGED <<model, req, shown, resolverVars, hotelVars, now, c_last, adapterVars>>

\* Lines 72-82.
Flights ==
    /\ pc = "flights"
    /\ LET w == "search_flights"
           key == FlightsKey(req, plan)
       IN \E reply \in FlightReplies(key.destination) :
            LET flights == CachedReturn(w, key, search_flights(reply))
            IN /\ calls' = Append(calls, w)
               /\ invoked' = IF IsHit(w, key) THEN invoked
                             ELSE Append(invoked, [fn |-> w, reply |-> reply])
               /\ cache' = CacheAfter(w, key, search_flights(reply))
               /\ IF IsRaise(flights)
                  THEN Returns(flights) /\ UNCHANGED plan
                  ELSE IF IsRaise(FlightDetails(flights))
                  THEN /\ Returns(FlightDetails(flights))
                       /\ plan' = [plan EXCEPT !.flights = FlightsAfterSort(flights)]
                  ELSE /\ plan' = [plan EXCEPT !.flights = FlightsAfterSort(flights),
                                               !.flight_details = FlightDetails(flights)]
                       /\ pc' = "hotels"
                       /\ UNCHANGED result
    /\ UNCHANGED <<model, req, shown, resolverVars, hotelVars, now, c_last, adapterVars>>

\* Lines 94-99, with hotels what line 85 returned.
HotelsBound(hs) ==
    IF IsRaise(HotelDetails(hs))
    THEN /\ Returns(HotelDetails(hs))
         /\ plan' = [plan EXCEPT !.hotels = hs]
    ELSE /\ plan' = [plan EXCEPT !.hotels = hs, !.hotel_details = HotelDetails(hs)]
         /\ pc' = "weather"
         /\ UNCHANGED result

\* Line 85: the call of cached_get_hotels, answered by the cache or entering get_hotels.
Hotels ==
    /\ pc = "hotels"
    /\ LET w == "get_hotels"
           key == HotelsKey(req, plan)
       IN /\ calls' = Append(calls, w)
          /\ IF IsHit(w, key)
             THEN /\ HotelsBound(CachedReturn(w, key, NoneValue))
                  /\ UNCHANGED <<invoked, hotelVars>>
             ELSE /\ EnterGetHotels([city |-> key.city, country |-> key.country,
                                     currency |-> "EUR", top_n |-> key.top_n, per_page |-> 10])
                  /\ invoked' = Append(invoked, [fn |-> w])
                  /\ pc' = "in get_hotels"
                  /\ UNCHANGED <<plan, result>>
    /\ UNCHANGED <<model, req, shown, resolverVars, cacheVars, adapterVars>>

\* get_hotels returns to line 85: the wrapper stores what it returned.
HotelsReturned ==
    /\ pc = "in get_hotels"
    /\ h_pc = "returned"
    /\ cache' = CacheAfter("get_hotels", HotelsKey(req, plan), h_result)
    /\ IF IsRaise(h_result)
       THEN Returns(h_result) /\ UNCHANGED plan
       ELSE HotelsBound(h_result)
    /\ h_pc' = "idle"
    /\ h_args' = NoneValue
    /\ hotels_data' = <<>>
    /\ h_i' = 0
    /\ hotels' = <<>>
    /\ h_lookups' = <<>>
    /\ h_result' = NoneValue
    /\ UNCHANGED <<model, req, shown, calls, invoked, resolverVars, now, c_last, adapterVars>>

\* Line 102.
Weather ==
    /\ pc = "weather"
    /\ LET w == "get_weather_forecast"
           key == WeatherKey(req)
       IN \E reply \in PlanWeatherReplies :
            /\ calls' = Append(calls, w)
            /\ invoked' = IF IsHit(w, key) THEN invoked
                          ELSE Append(invoked, [fn |-> w, reply |-> reply])
            /\ cache' = CacheAfter(w, key, get_weather_forecast(key.city, reply))
            /\ plan' = [plan EXCEPT !.weather =
                            CachedReturn(w, key, get_weather_forecast(key.city, reply))]
    /\ pc' = "attractions"
    /\ UNCHANGED <<model, req, shown, result, resolverVars, hotelVars, now, c_last, adapterVars>>

\* Lines 105-108.
Attractions ==
    /\ pc = "attractions"
    /\ LET w == "get_tourist_attractions_by_city"
           key == AttractionsKey(req)
       IN \E reply \in PlanAttractionReplies(key.limit) :
            LET attractions == CachedReturn(w, key, get_tourist_attractions_by_city(key.city, reply))
            IN /\ calls' = Append(calls, w)
               /\ invoked' = IF IsHit(w, key) THEN invoked
                             ELSE Append(invoked, [fn |-> w, reply |-> reply])
               /\ cache' = CacheAfter(w, key, get_tourist_attractions_by_city(key.city, reply))
               /\ plan' = [plan EXCEPT !.attractions = attractions,
                                       !.attraction_list =
                                           AttractionList(attractions, req.destination_city)]
    /\ pc' = "compose"
    /\ UNCHANGED <<model, req, shown, result, resolverVars, hotelVars, now, c_last, adapterVars>>

\* Lines 111-162.
Compose ==
    /\ pc = "compose"
    /\ IF IsRaise(PromptOf(req, plan))
       THEN /\ Returns(PromptOf(req, plan))
            /\ UNCHANGED <<plan, invoked>>
       ELSE /\ plan' = [plan EXCEPT !.prompt = PromptOf(req, plan)]
            /\ \E outcome \in GenerationOutcomes :
                 /\ invoked' = Append(invoked, [fn |-> "generate_content", reply |-> outcome])
                 /\ Returns(outcome)
    /\ UNCHANGED <<model, req, shown, calls, resolverVars, hotelVars, cacheVars, adapterVars>>

\* The string literals of travel_pipeline.py and iata_finder.py that a result is
\* made of and that hold the characters "Error:".
ErrorMarked == {"Error: Gemini API key not configured.",
                "Error: Invalid date format provided."}

ErrorMarker == <<"E", "r", "r", "o", "r", ":">>

\* pattern in chars
Contains(chars, pattern) ==
    \E i \in 0..(Len(chars) - Len(pattern)) :
        \A j \in 1..Len(pattern) : chars[i + j] = pattern[j]

\* app.py line 88: "Error:" in plan_text.  The text is its literals and, where the
\* resolver's not-found message is part of it, the city name the user typed.
HasErrorMarker(plan_text, destination_city) ==
    \E i \in DOMAIN plan_text.s :
        \/ plan_text.s[i].text \in ErrorMarked
        \/ /\ "error" \in DOMAIN plan_text.s[i]
           /\ \/ plan_text.s[i].error \in ErrorMarked
              \/ /\ plan_text.s[i].error = NotFoundMessage
                 /\ Contains(destination_city, ErrorMarker)

\* app.py lines 73-125: what the page does with the outcome of vacation_plan.
Display(outcome, destination_city) ==
    IF IsRaise(outcome)
    THEN [type |-> "display", path |-> "st.error, line 125", outcome |-> outcome]
    ELSE IF HasErrorMarker(outcome, destination_city)
    THEN [type |-> "display", path |-> "st.error, line 89", outcome |-> outcome]
    ELSE [type |-> "display", path |-> "parse_plan, lines 91-122", outcome |-> outcome]

\* The caller has the result and shows it; the frame of the run is gone.
Finish ==
    /\ pc = "done"
    /\ pc' = "idle"
    /\ shown' = Display(result, req.destination_city)
    /\ req' = NoneValue
    /\ plan' = FreshPlan
    /\ result' = NoneValue
    /\ calls' = <<>>
    /\ invoked' = <<>>
    /\ UNCHANGED <<model, resolverVars, hotelVars, cacheVars, adapterVars>>

\* Time passes between runs.
Tick ==
    /\ pc = "idle"
    /\ \E t \in PlanInstants : t > now /\ now' = t
    /\ UNCHANGED <<cache, c_last, resolverVars, hotelVars, planVars, adapterVars>>

Init ==
    /\ csv \in {PlanCsv, FileMissing}
    /\ df_airports \in LoadedFrames(csv)
    /\ ResolverIdle
    /\ HotelsIdle
    /\ AdaptersIdle
    /\ CacheIdle
    /\ model \in {NoneValue, [type |-> "GenerativeModel", name |-> "gemini-2.0-flash"]}
    /\ pc = "idle"
    /\ req = NoneValue
    /\ plan = FreshPlan
    /\ result = NoneValue
    /\ calls = <<>>
    /\ invoked = <<>>
    /\ shown = NoneValue

Next ==
    \/ Begin
    \/ Resolve
    \/ Flights
    \/ Hotels
    \/ HotelsSearch(PlanSearchReplies) /\ pc = "in get_hotels"
         /\ UNCHANGED <<resolverVars, cacheVars, planVars, adapterVars>>
    \/ HotelsRate(PlanRateReplies) /\ pc = "in get_hotels"
         /\ UNCHANGED <<resolverVars, cacheVars, planVars, adapterVars>>
    \/ HotelsReturn /\ pc = "in get_hotels"
         /\ UNCHANGED <<resolverVars, cacheVars, planVars, adapterVars>>
    \/ HotelsReturned
    \/ Weather
    \/ Attractions
    \/ Compose
    \/ Finish
    \/ Tick

Spec == Init /\ [][Next]_vars

-----------------------------------------------------------------------------
(* The resolver on its own: import the module, then call get_location_codes. *)

QueryCities == {Paris, Rome, Lisbon}

InitResolver ==
    /\ csv \in CsvFiles \cup {FileMissing}
    /\ df_airports = Unloaded
    /\ ResolverIdle
    /\ HotelsIdle
    /\ AdaptersIdle
    /\ CacheIdle
    /\ PlanIdle

ImportIataFinder ==
    /\ df_airports = Unloaded
    /\ df_airports' \in LoadedFrames(csv)
    /\ UNCHANGED <<csv, r_city, r_result, hotelVars, cacheVars, planVars, adapterVars>>

CallGetLocationCodes ==
    /\ df_airports # Unloaded
    /\ \E city_name \in QueryCities :
         /\ r_city' = Str(city_name)
         /\ r_result' = get_location_codes(df_airports, city_name)
    /\ UNCHANGED <<csv, df_airports, hotelVars, cacheVars, planVars, adapterVars>>

NextResolver == ImportIataFinder \/ CallGetLocationCodes

SpecResolver == InitResolver /\ [][NextResolver]_vars

-----------------------------------------------------------------------------
(* get_hotels on its own, called with any top_n. *)

HotelArgs ==
    {[city |-> Paris, country |-> "FR", currency |-> "EUR", top_n |-> n, per_page |-> pp] :
        n \in 0..MaxTopN \cup {PlanTopN}, pp \in {2, 10}}

InitHotels ==
    /\ csv = FileMissing
    /\ df_airports = Unloaded
    /\ ResolverIdle
    /\ HotelsIdle
    /\ AdaptersIdle
    /\ CacheIdle
    /\ PlanIdle

CallGetHotels ==
    /\ h_pc \in {"idle", "returned"}
    /\ \E args \in HotelArgs : EnterGetHotels(args)
    /\ UNCHANGED <<resolverVars, cacheVars, planVars, adapterVars>>

NextHotels ==
    \/ CallGetHotels
    \/ HotelsSearch(SearchReplies) /\ UNCHANGED <<resolverVars, cacheVars, planVars, adapterVars>>
    \/ HotelsRate(RateReplies) /\ UNCHANGED <<resolverVars, cacheVars, planVars, adapterVars>>
    \/ HotelsReturn /\ UNCHANGED <<resolverVars, cacheVars, planVars, adapterVars>>

SpecHotels == InitHotels /\ [][NextHotels]_vars

-----------------------------------------------------------------------------
(* The wrappers on their own: calls of the location wrapper and of one of the   *)
(* short-lived wrappers, at instants around the two ttl values.  c_last is the  *)
(* last call: its wrapper and arguments, the instant, what it returned, whether *)
(* the function behind the wrapper ran, and when the value it returned was      *)
(* stored.                                                                      *)

ShortLived == Wrappers \ {"get_location_codes"}

Instants == {0, TTL_SHORT - 1, TTL_SHORT, TTL_LONG - 1, TTL_LONG}

CacheKeys(w) ==
    IF w = "get_location_codes" THEN {[city_name |-> Paris], [city_name |-> Atlantis]}
    ELSE IF w = "search_flights"
    THEN {[origin |-> "ARN", destination |-> "PAR", departure_date |-> <<2025, 12, 28>>,
           return_date |-> <<2026, 1, 4>>, adults |-> 2, top_n |-> PlanTopN]}
    ELSE IF w = "get_hotels"
    THEN {[city |-> Paris, country |-> "FR", checkin |-> <<2025, 12, 28>>,
           checkout |-> <<2026, 1, 4>>, adults |-> 2, children |-> 0, top_n |-> PlanTopN]}
    ELSE IF w = "get_weather_forecast" THEN {[city |-> Paris]}
    ELSE {[city |-> Paris, limit |-> AttractionLimit]}

\* What the function behind wrapper w can return, or raise, for arguments key.
WrappedOutcomes(w, key) ==
    IF w = "get_location_codes" THEN {get_location_codes(df_airports, key.city_name)}
    ELSE IF w = "search_flights"
    THEN {search_flights(r) : r \in {x \in FlightReplies(key.destination) :
                x.kind = "data" \/ "SYSTEM_ERROR_HAS_OCCURRED" \in x.codes}}
    ELSE IF w = "get_hotels"
    THEN {NoHotelsError, List(<<>>), Raise("IndexError")}
    ELSE IF w = "get_weather_forecast"
    THEN {get_weather_forecast(key.city, r) : r \in PlanWeatherReplies}
    ELSE {get_tourist_attractions_by_city(key.city, r) :
            r \in {x \in AttractionReplies(key.limit) : x.kind \in {"raises", "geocode_error"}
                      \/ (x.kind = "places" /\ x.data = [statusCode |-> 401])}}
          \cup {get_tourist_attractions_by_city(key.city,
                    [kind |-> "places", data |-> [features |-> <<Place(1)>>]])}

InitCache ==
    /\ csv = PlanCsv
    /\ df_airports \in LoadedFrames(csv)
    /\ ResolverIdle
    /\ HotelsIdle
    /\ AdaptersIdle
    /\ PlanIdle
    /\ now = 0
    /\ cache = EmptyCache
    /\ c_last \in {[type |-> "none", short |-> s] : s \in ShortLived}

CallWrapper ==
    /\ \E w \in {"get_location_codes", c_last.short} :
       \E key \in CacheKeys(w) :
       \E outcome \in WrappedOutcomes(w, key) :
         /\ cache' = CacheAfter(w, key, outcome)
         /\ c_last' = [type |-> "call", short |-> c_last.short,
                       n |-> IF c_last.type = "call" THEN 1 - c_last.n ELSE 0,
                       w |-> w, key |-> key, at |-> now,
                       ret |-> CachedReturn(w, key, outcome),
                       invoked |-> ~IsHit(w, key),
                       stored |-> IF IsHit(w, key)
                                  THEN (CHOOSE e \in FreshEntries(cache, w, key, now) : TRUE).stored
                                  ELSE now]
    /\ UNCHANGED <<now, resolverVars, hotelVars, planVars, adapterVars>>

TickCache ==
    /\ \E t \in Instants : t > now /\ now' = t
    /\ UNCHANGED <<cache, c_last, resolverVars, hotelVars, planVars, adapterVars>>

NextCache ==
    \/ CallWrapper
    \/ TickCache

SpecCache == InitCache /\ [][NextCache]_vars

-----------------------------------------------------------------------------
(* The adapters on their own: search_flights, get_weather_forecast and          *)
(* get_tourist_attractions_by_city called with what the provider may answer.    *)

MaxFeed == 5
FeedDates == {"d1", "d2", "d3", "d4"}

FeedHours == <<"00:00", "03:00", "06:00", "09:00", "12:00", "15:00", "18:00", "21:00">>

\* The forecast feeds: up to MaxFeed readings, the i-th with an hour and a
\* temperature of its own.
Feeds ==
    UNION {{[i \in 1..n |-> Reading(dates[i], FeedHours[i], 10 + i, "clear")] :
                dates \in [1..n -> FeedDates]} : n \in 0..MaxFeed}

AdapterWeatherReplies ==
    WeatherReplies \cup {[kind |-> "forecast", weather_data |-> [list |-> feed]] : feed \in Feeds}

InitAdapters ==
    /\ csv = FileMissing
    /\ df_airports = NoneValue
    /\ ResolverIdle
    /\ HotelsIdle
    /\ CacheIdle
    /\ PlanIdle
    /\ AdaptersIdle

CallSearchFlights ==
    /\ a_call = NoneValue
    /\ \E reply \in FlightReplies("PAR") :
         /\ a_call' = [fn |-> "search_flights", destination |-> "PAR", reply |-> reply]
         /\ a_result' = search_flights(reply)
    /\ UNCHANGED <<resolverVars, hotelVars, cacheVars, planVars>>

CallGetWeatherForecast ==
    /\ a_call = NoneValue
    /\ \E city \in {Paris, Lisbon}, reply \in AdapterWeatherReplies :
         /\ a_call' = [fn |-> "get_weather_forecast", city |-> city, reply |-> reply]
         /\ a_result' = get_weather_forecast(city, reply)
    /\ UNCHANGED <<resolverVars, hotelVars, cacheVars, planVars>>

CallGetTouristAttractions ==
    /\ a_call = NoneValue
    /\ \E limit \in {FewAttractions, AttractionLimit} :
       \E reply \in AttractionReplies(limit) :
         /\ a_call' = [fn |-> "get_tourist_attractions_by_city", city |-> Paris,
                       limit |-> limit, reply |-> reply]
         /\ a_result' = get_tourist_attractions_by_city(Paris, reply)
    /\ UNCHANGED <<resolverVars, hotelVars, cacheVars, planVars>>

\* The caller is done with what the adapter gave it.
AdapterCallOver ==
    /\ a_call # NoneValue
    /\ a_call' = NoneValue
    /\ a_result' = NoneValue
    /\ UNCHANGED <<resolverVars, hotelVars, cacheVars, planVars>>

NextAdapters ==
    \/ CallSearchFlights
    \/ CallGetWeatherForecast
    \/ CallGetTouristAttractions
    \/ AdapterCallOver

SpecAdapters == InitAdapters /\ [][NextAdapters]_vars

-----------------------------------------------------------------------------
(* The dates of a run on their own: lines 56-60 and the arguments of lines      *)
(* 72-75 and 85-93, for any start date the form can send and any duration.      *)

MaxDuration == 30
DateYears == {2024, 2025, 2100}
DateInputs == {<<y, m, d>> : y \in DateYears, m \in 1..12, d \in 1..31}

DateRequest(start_date, duration) ==
    [origin_iata |-> "ARN", destination_city |-> Paris, vacation_type |-> "Relaxing",
     adults |-> 2, children |-> 0, duration |-> duration, start_date |-> start_date,
     budget_eur |-> 3000]

\* What lines 56-60 leave in return_date, and what lines 72-75 and 85-93 pass on.
PlanDates(r) ==
    IF ~ValidDate(r.start_date) THEN Text("Error: Invalid date format provided.")
    ELSE LET p == [FreshPlan EXCEPT !.return_date = Str(AddDays(r.start_date, r.duration)),
                                    !.destination_iata = Str("PAR"),
                                    !.destination_country_code = Str("FR")]
         IN Dict([return_date |-> p.return_date.s,
                  flights |-> FlightsKey(r, p),
                  hotels |-> HotelsKey(r, p)])

InitDates ==
    /\ csv = FileMissing
    /\ df_airports = NoneValue
    /\ ResolverIdle
    /\ HotelsIdle
    /\ CacheIdle
    /\ PlanIdle
    /\ AdaptersIdle

CallPlanDates ==
    /\ a_call = NoneValue
    /\ \E start_date \in DateInputs, duration \in 1..MaxDuration :
         /\ a_call' = [fn |-> "vacation_plan", start_date |-> start_date, duration |-> duration]
         /\ a_result' = PlanDates(DateRequest(start_date, duration))
    /\ UNCHANGED <<resolverVars, hotelVars, cacheVars, planVars>>

NextDates ==
    \/ CallPlanDates
    \/ AdapterCallOver

SpecDates == InitDates /\ [][NextDates]_vars

-----------------------------------------------------------------------------
(* C1, C2, C3 *)

Resolved == HasKey(plan.location_codes, "iata")
AdaptersReturned ==
    /\ plan.flights # Unbound
    /\ plan.hotels # Unbound
    /\ plan.weather # Unbound
    /\ plan.attractions # Unbound

\* C1: a run whose destination resolved and whose four adapters each returned
\* (data, an empty result or a typed error) ends with the plan request composed
\* from the four fields: no adapter outcome ends the run before that.
C1_CompleteTripContext ==
    (pc = "done" /\ Resolved /\ AdaptersReturned) => plan.prompt # Unbound

FoundNames ==
    IF HasKey(plan.attractions, "results")
    THEN [i \in DOMAIN plan.attractions.d.results |-> [name |-> plan.attractions.d.results[i].name]]
    ELSE <<>>

\* C2: when the plan request is composed the attraction name list has exactly six
\* entries, the names the adapter found followed by generic placeholders.
C2_SixAttractionEntries ==
    pc = "compose" =>
        /\ Len(plan.attraction_list) = 6
        /\ \A i \in 1..6 :
             plan.attraction_list[i] =
                IF i <= Len(FoundNames) THEN FoundNames[i]
                ELSE Placeholder(req.destination_city, i)

AdapterWrappers == {"search_flights", "get_hotels", "get_weather_forecast",
                    "get_tourist_attractions_by_city"}

\* The destination of the run is in no row of the loaded dataset, or no dataset
\* is loaded.
DestinationUnknown ==
    \/ df_airports = NoneValue
    \/ \A i \in DOMAIN df_airports.items :
          Lower(df_airports.items[i].municipality) # Lower(req.destination_city)

AdapterOrGenerationUsed ==
    \/ \E i \in DOMAIN calls : calls[i] \in AdapterWrappers
    \/ \E i \in DOMAIN invoked : invoked[i].fn \in AdapterWrappers \cup {"generate_content"}

ResolverReturnedCodes ==
    /\ calls # <<>>
    /\ calls[1] = "get_location_codes"
    /\ HasKey(plan.location_codes, "iata")
    /\ ~HasKey(plan.location_codes, "error")
    /\ ~DestinationUnknown

\* C3: an adapter or the text generation is used only after the resolver returned
\* codes for the destination; a run for an unknown destination ends with the one
\* error message, having called the resolver and nothing else.
C3_ResolverFirst ==
    /\ AdapterOrGenerationUsed => ResolverReturnedCodes
    /\ (req # NoneValue /\ pc \notin {"idle", "resolve"} /\ calls # <<>> /\ DestinationUnknown) =>
          /\ pc = "done"
          /\ result.type = "str"
          /\ result.s[1].text = "Could not generate plan. {error}"
          /\ Len(result.s) = 1
          /\ calls = <<"get_location_codes">>

C3_Witness ==
    /\ pc = "done"
    /\ req.destination_city = Atlantis
    /\ df_airports # NoneValue
    /\ calls = <<"get_location_codes">>
    /\ result = Str(<<[text |-> "Could not generate plan. {error}", error |-> NotFoundMessage]>>)

-----------------------------------------------------------------------------
(* C7, C8 *)

NoFareCodes == {"NO_FARE_APPLICABLE", "NO_COMBINABLE_FARES"}

FlightsRanWith(reply) ==
    \E i \in DOMAIN invoked : invoked[i] = [fn |-> "search_flights", reply |-> reply]

RunWentPastFlights ==
    /\ pc \notin {"idle", "resolve", "flights"}
    /\ pc = "done" => plan.hotels # Unbound

\* C7: a ResponseError of the no-fare kind makes search_flights return the empty
\* list and any other ResponseError a dict with an "error" key; with either the
\* flight field is the placeholder text and the run goes on to the hotels.
C7_NoFareIsEmptyList ==
    \A reply \in FlightReplies("PAR") :
        (reply.kind = "ResponseError" /\ FlightsRanWith(reply)) =>
            /\ IF reply.codes \cap NoFareCodes # {}
               THEN plan.flights = List(<<>>)
               ELSE HasKey(plan.flights, "error")
            /\ plan.flight_details = NoFlightsText
            /\ RunWentPastFlights

C7_Witness ==
    /\ FlightsRanWith([kind |-> "ResponseError", codes |-> {"NO_FARE_APPLICABLE"}])
    /\ plan.flights = List(<<>>)
    /\ plan.flight_details = NoFlightsText
    /\ pc = "compose"

\* The value a wrapper gave this run: what the function returned for the reply it
\* got, or the entry that answered in its place.
OwnValue(w, key, field, Fn(_)) ==
    \/ \E i \in DOMAIN invoked : invoked[i].fn = w /\ field = Fn(invoked[i].reply)
    \/ /\ \A i \in DOMAIN invoked : invoked[i].fn # w
       /\ \E e \in cache[w] : e.key = key /\ e.value = field

HotelFailureAbsorbed ==
    (HasKey(plan.hotels, "error") /\ pc \notin {"hotels", "in get_hotels"}) =>
        /\ plan.hotel_details = NoHotelsText
        /\ pc = "done" => (plan.weather # Unbound /\ plan.attractions # Unbound)

FieldsOwn ==
    /\ plan.weather # Unbound =>
          LET forecast(reply) == get_weather_forecast(req.destination_city, reply)
          IN OwnValue("get_weather_forecast", WeatherKey(req), plan.weather, forecast)
    /\ plan.attractions # Unbound =>
          LET places(reply) == get_tourist_attractions_by_city(req.destination_city, reply)
          IN OwnValue("get_tourist_attractions_by_city", AttractionsKey(req),
                      plan.attractions, places)
    /\ plan.flights # Unbound =>
          \/ \E reply \in FlightReplies(plan.destination_iata.s) :
                /\ FlightsRanWith(reply)
                /\ plan.flights = FlightsAfterSort(search_flights(reply))
          \/ /\ \A i \in DOMAIN invoked : invoked[i].fn # "search_flights"
             /\ \E e \in cache["search_flights"] :
                   e.key = FlightsKey(req, plan) /\ plan.flights = FlightsAfterSort(e.value)

\* C8: a hotel search with no city match ends get_hotels with a dict holding an
\* "error" key; the hotel field is then the placeholder text and the run goes on;
\* the flight, weather and attraction fields are what their own adapters returned,
\* and a field that is bound keeps its value whatever the later adapters return.
C8_FailureIsolated ==
    /\ [](HotelFailureAbsorbed /\ FieldsOwn)
    /\ [][(h_pc = "search" /\ h_pc' = "returned") => HasKey(h_result', "error")]_vars
    /\ [][(pc # "idle" /\ pc' # "idle") =>
            \A f \in PlanFields : plan[f] # Unbound => plan'[f] = plan[f]]_vars

C8_Witness ==
    /\ pc = "done"
    /\ plan.hotels = NoHotelsError
    /\ plan.hotel_details = NoHotelsText
    /\ plan.flight_details # NoFlightsText
    /\ Len(plan.weather.s) > 1
    /\ Len(plan.attraction_list) = AttractionLimit
    /\ result \in {o \in GenerationOutcomes : o.type = "str"}

-----------------------------------------------------------------------------
(* C4, C5 *)

ClaimedTtl(w) == IF w = "get_location_codes" THEN 86400 ELSE 3600

IsCall == c_last'.type = "call" /\ c_last' # c_last
EntriesOfCall == {e \in cache[c_last'.w] : e.key = c_last'.key}

\* C4: a call that finds an entry of its arguments younger than the wrapper's ttl
\* returns the entry's value, a dict with an "error" key included, and the function
\* behind the wrapper does not run; a call that ran the function and got a value
\* back leaves that value as the entry of its arguments.
C4_CacheIdempotence ==
    [][IsCall =>
        /\ \A e \in EntriesOfCall :
              now - e.stored < ClaimedTtl(c_last'.w) =>
                  /\ c_last'.ret = e.value
                  /\ ~c_last'.invoked
                  /\ cache' = cache
        /\ (c_last'.invoked /\ ~IsRaise(c_last'.ret)) =>
              [key |-> c_last'.key, value |-> c_last'.ret, stored |-> now] \in cache'[c_last'.w]
      ]_vars

C4_Witness ==
    /\ c_last.type = "call"
    /\ c_last.w \in ShortLived
    /\ ~c_last.invoked
    /\ HasKey(c_last.ret, "error")
    /\ c_last.at > c_last.stored

\* C5: a call that finds no entry of its arguments younger than the wrapper's ttl
\* (3600 s, and 86400 s for the location codes) runs the function again and the
\* value it returns is stored anew; a location entry younger than 86400 s answers
\* the call.
C5_CacheExpiry ==
    [][IsCall =>
        /\ (\A e \in EntriesOfCall : now - e.stored >= ClaimedTtl(c_last'.w)) =>
              /\ c_last'.invoked
              /\ c_last'.stored = now
              /\ c_last'.ret \in WrappedOutcomes(c_last'.w, c_last'.key)
              /\ ~IsRaise(c_last'.ret) =>
                    \A e \in cache'[c_last'.w] :
                        e.key = c_last'.key => (e.stored = now /\ e.value = c_last'.ret)
        /\ (c_last'.w = "get_location_codes" /\
            \E e \in EntriesOfCall : now - e.stored < 86400) => ~c_last'.invoked
      ]_vars

C5_Witness ==
    /\ c_last.type = "call"
    /\ c_last.w = "get_location_codes"
    /\ ~c_last.invoked
    /\ c_last.at - c_last.stored >= 3600
    /\ \E e \in cache[c_last.short] : now - e.stored >= 3600

-----------------------------------------------------------------------------
(* C11 *)

IsForecastCall ==
    /\ a_call # NoneValue
    /\ a_call.fn = "get_weather_forecast"
    /\ a_call.reply.kind = "forecast"
    /\ "list" \in DOMAIN a_call.reply.weather_data

CalledFeed == a_call.reply.weather_data.list

\* The lines after the "Forecast for {city}:" line.
SummaryEntries ==
    IF a_result.s[1].text = "Forecast for {city}:" THEN Tail(a_result.s) ELSE <<>>

FirstOfDate(feed, date) ==
    CHOOSE i \in DOMAIN feed :
        DateOf(feed[i]) = date /\ \A j \in 1..(i - 1) : DateOf(feed[j]) # date

\* C11: the summary of a forecast feed has at most 3 entries, no two of one date,
\* each the first reading of its date, in the order the dates first appear.
C11_ForecastSummary ==
    IsForecastCall =>
        LET entries == SummaryEntries
            feed == CalledFeed
        IN /\ Len(entries) <= 3
           /\ \A k, l \in DOMAIN entries : k # l => entries[k].date_str # entries[l].date_str
           /\ \A k \in DOMAIN entries :
                /\ \E i \in DOMAIN feed : DateOf(feed[i]) = entries[k].date_str
                /\ entries[k].temp = feed[FirstOfDate(feed, entries[k].date_str)].main.temp
                /\ entries[k].description =
                       feed[FirstOfDate(feed, entries[k].date_str)].weather[1].description
           /\ \A k, l \in DOMAIN entries :
                k < l => FirstOfDate(feed, entries[k].date_str)
                            < FirstOfDate(feed, entries[l].date_str)

C11_Witness ==
    /\ IsForecastCall
    /\ Len(SummaryEntries) = 3
    /\ Cardinality({DateOf(CalledFeed[i]) : i \in DOMAIN CalledFeed}) = 4
    /\ Len(CalledFeed) = 5
    /\ DateOf(CalledFeed[1]) = DateOf(CalledFeed[2])

-----------------------------------------------------------------------------
(* C12 *)

\* C12: whatever the provider answers, an adapter returns its normalized value
\* (a list of flights, a forecast text, a dict of results) or a typed error value,
\* and raises nothing.
C12_AdaptersNeverRaise ==
    a_call # NoneValue =>
        /\ ~IsRaise(a_result)
        /\ a_call.fn = "search_flights" => (IsList(a_result) \/ HasKey(a_result, "error"))
        /\ a_call.fn = "get_weather_forecast" => a_result.type = "str"
        /\ a_call.fn = "get_tourist_attractions_by_city" =>
              (HasKey(a_result, "results") \/ HasKey(a_result, "error"))

-----------------------------------------------------------------------------
(* C13 *)

GenerationRanWith(outcome) ==
    \E i \in DOMAIN invoked : invoked[i] = [fn |-> "generate_content", reply |-> outcome]

NoContent == Raise("ValueError")

\* C13: a run that reached the generation returns the collaborator's text as it
\* is; a run without the credential, and a run whose collaborator answered with
\* no content, return an error text and raise nothing.
C13_ComposerReturnsTextOrError ==
    pc = "done" =>
        /\ \A outcome \in GenerationOutcomes :
              (outcome.type = "str" /\ GenerationRanWith(outcome)) => result = outcome
        /\ model = NoneValue => result = Text("Error: Gemini API key not configured.")
        /\ GenerationRanWith(NoContent) => result.type = "str"

-----------------------------------------------------------------------------
(* C14 *)

\* C14: without the generation credential a run ends at once with the one
\* configuration error: no wrapper is called, no function behind one runs, and
\* the cache is neither read into the run nor written.
C14_MissingCredentialShortCircuits ==
    /\ []((model = NoneValue /\ req # NoneValue) =>
            /\ pc = "done"
            /\ result = Text("Error: Gemini API key not configured.")
            /\ calls = <<>>
            /\ invoked = <<>>
            /\ plan = FreshPlan)
    /\ [][model = NoneValue => cache' = cache]_vars

C14_Witness ==
    /\ model = NoneValue
    /\ pc = "done"
    /\ req.destination_city = Paris
    /\ ValidDate(req.start_date)
    /\ df_airports # NoneValue
    /\ result = Text("Error: Gemini API key not configured.")

-----------------------------------------------------------------------------
(* C15 *)

MonthLengths == <<31, 28, 31, 30, 31, 30, 31, 31, 30, 31, 30, 31>>
DaysBeforeMonth == <<0, 31, 59, 90, 120, 151, 181, 212, 243, 273, 304, 334>>

LeapYear(y) == y % 400 = 0 \/ (y % 4 = 0 /\ y % 100 # 0)

IsCalendarDate(d) ==
    /\ d[2] \in 1..12
    /\ d[3] >= 1
    /\ d[3] <= MonthLengths[d[2]] + (IF d[2] = 2 /\ LeapYear(d[1]) THEN 1 ELSE 0)

\* The number of the day, counted from 0001-01-01.
Ordinal(d) ==
    365 * (d[1] - 1) + ((d[1] - 1) \div 4) - ((d[1] - 1) \div 100) + ((d[1] - 1) \div 400)
    + DaysBeforeMonth[d[2]] + (IF d[2] > 2 /\ LeapYear(d[1]) THEN 1 ELSE 0)
    + d[3]

IsDatesCall == a_call # NoneValue /\ a_call.fn = "vacation_plan"

\* C15: for a valid start date and a duration of one day or more the return date
\* is the calendar date `duration` days after the start; it is the flight return
\* date and the hotel check-out, and the start date is the departure and check-in.
C15_ReturnDate ==
    (IsDatesCall /\ IsCalendarDate(a_call.start_date)) =>
        /\ IsDict(a_result)
        /\ IsCalendarDate(a_result.d.return_date)
        /\ Ordinal(a_result.d.return_date) = Ordinal(a_call.start_date) + a_call.duration
        /\ a_result.d.flights.departure_date = a_call.start_date
        /\ a_result.d.flights.return_date = a_result.d.return_date
        /\ a_result.d.hotels.checkin = a_call.start_date
        /\ a_result.d.hotels.checkout = a_result.d.return_date

C15_Witness ==
    /\ IsDatesCall
    /\ a_call.start_date = <<2024, 2, 20>>
    /\ a_call.duration = 10
    /\ a_result.d.return_date = <<2024, 3, 1>>
    /\ a_result.d.hotels.checkout = <<2024, 3, 1>>

-----------------------------------------------------------------------------
(* C16 *)

SameLetter(a, b) ==
    \/ a = b
    \/ \E i \in DOMAIN UpperLetters :
          {a, b} = {UpperLetters[i], LowerLetters[i]}

SameIgnoringCase(s, t) ==
    /\ Len(s) = Len(t)
    /\ \A i \in DOMAIN s : SameLetter(s[i], t[i])

\* The entries of the file with an IATA code, not closed, whose municipality is
\* the city asked for, case apart.
EligibleFor(city_name) ==
    {i \in DOMAIN csv.items :
        /\ csv.items[i].iata_code # NaN
        /\ csv.items[i].type # "closed"
        /\ SameIgnoringCase(csv.items[i].municipality, city_name)}

\* C16: with the dataset loaded, get_location_codes returns the iata and country
\* of one eligible entry whose municipality is the city name case apart, if there
\* is any, and the not-found error exactly when there is none.
C16_CaseInsensitiveMatch ==
    (r_city # NoneValue /\ IsList(df_airports)) =>
        IF EligibleFor(r_city.s) = {}
        THEN /\ HasKey(r_result, "error")
             /\ r_result.d.error = NotFoundMessage
        ELSE \E i \in EligibleFor(r_city.s) :
                r_result = Dict([iata |-> csv.items[i].iata_code,
                                 country |-> csv.items[i].iso_country])

C16_Witness ==
    /\ r_city = Str(Paris)
    /\ IsList(df_airports)
    /\ csv.items[1].municipality = PARIS
    /\ csv.items[1].type = "closed"
    /\ csv.items[2].municipality = PARIS
    /\ csv.items[2].type = "small_airport"
    /\ csv.items[3].iata_code = NaN
    /\ r_result = Dict([iata |-> "ORY", country |-> "FX"])

-----------------------------------------------------------------------------
(* C17 *)

\* C17: a call posts a rate request for at most 3 hotels, the first of the city
\* search in the provider's order, whatever per_page and top_n are; the list it
\* returns holds at most min(3, top_n) hotels, each with a price.
C17_AtMostThreeRateLookups ==
    /\ Len(h_lookups) <= 3
    /\ Len(h_lookups) <= Len(hotels_data)
    /\ \A i \in DOMAIN h_lookups : h_lookups[i] = hotels_data[i].id
    /\ (h_pc = "returned" /\ IsList(h_result)) =>
          /\ Len(h_result.items) <= 3
          /\ Len(h_result.items) <= h_args.top_n
          /\ \A i \in DOMAIN h_result.items : h_result.items[i].price \in 1..MaxPrice

C17_Witness ==
    /\ h_pc = "returned"
    /\ Len(hotels_data) = 4
    /\ Len(h_lookups) = 3
    /\ h_args.top_n = PlanTopN
    /\ h_args.per_page = 2
    /\ IsList(h_result)
    /\ Len(h_result.items) = 3

-----------------------------------------------------------------------------
(* C18 *)

\* The texts with which vacation_plan gives up: lines 54, 60 and 66.
FatalTexts == {"Error: Gemini API key not configured.",
               "Error: Invalid date format provided.",
               "Could not generate plan. {error}"}

ShownFatal ==
    /\ shown # NoneValue
    /\ shown.outcome.type = "str"
    /\ shown.outcome.s[1].text \in FatalTexts

\* C18: the page shows every fatal outcome of vacation_plan through st.error and
\* never hands it to parse_plan as a generated plan.
C18_FatalShownAsError ==
    ShownFatal => shown.path = "st.error, line 89"

-----------------------------------------------------------------------------
(* C6 *)

\* The entries of the file the claim calls eligible matches of a city: with an IATA
\* code, not marked closed, municipality equal to the city ignoring case.
EligibleMatches(city_name) ==
    {row \in Range(csv.items) :
        /\ row.iata_code # NaN
        /\ row.type # "closed"
        /\ Lower(row.municipality) = Lower(city_name)}

AirportClasses == <<"large_airport", "medium_airport", "small_airport">>

\* The type the claim says wins among a set of entries: a city-level entry (missing
\* type) if there is one, else the largest airport class present; NoClass when the
\* set holds neither.
NoClass == "no class"
WinningType(rows) ==
    IF \E row \in rows : row.type = NaN THEN NaN
    ELSE IF \E i \in DOMAIN AirportClasses : \E row \in rows : row.type = AirportClasses[i]
    THEN AirportClasses[CHOOSE i \in DOMAIN AirportClasses :
            /\ \E row \in rows : row.type = AirportClasses[i]
            /\ \A j \in 1..(i - 1) : \A row \in rows : row.type # AirportClasses[j]]
    ELSE NoClass

ResolvedByPriority ==
    (r_city # NoneValue /\ csv # FileMissing) =>
        LET rows == EligibleMatches(r_city.s)
            win == WinningType(rows)
        IN (rows # {} /\ win # NoClass) =>
              /\ HasKey(r_result, "iata")
              /\ \E row \in rows : row.type = win /\ row.iata_code = r_result.d.iata

\* C6: get_location_codes returns the code of a city-level entry if one matches,
\* otherwise of an entry of the largest airport class among the matches, and a
\* repeated call with the same city returns what the call before it returned.
C6_ResolverPriority ==
    /\ []ResolvedByPriority
    /\ [][(r_city # NoneValue /\ r_city' = r_city) => r_result' = r_result]_vars

\* The Paris scenario: CDG and ORY large airports, PAR a city code; Paris gives PAR.
C6_Witness ==
    /\ csv # FileMissing
    /\ \A i \in 1..3 : csv.items[i].municipality = PARIS /\ csv.items[i].iata_code # NaN
    /\ csv.items[1].type = "large_airport"
    /\ csv.items[2].type = "large_airport"
    /\ csv.items[3].type = NaN
    /\ r_city = Str(Paris)
    /\ r_result = Dict([iata |-> "PAR", country |-> "FR"])

-----------------------------------------------------------------------------
(* C9 *)

ReturnedHotelList == h_pc = "returned" /\ IsList(h_result)

StrictlyAscending(hs) == \A i \in 1..(Len(hs) - 1) : hs[i].price < hs[i + 1].price
Ascending(hs) == \A i \in 1..(Len(hs) - 1) : hs[i].price <= hs[i + 1].price

\* C9 as stated: every list get_hotels returns is sorted strictly ascending by price
\* and holds no more than top_n hotels.
C9_StrictlyAscendingTopN ==
    ReturnedHotelList =>
        /\ StrictlyAscending(h_result.items)
        /\ Len(h_result.items) <= h_args.top_n

\* C9 as amended: every list get_hotels returns is sorted ascending by price, equal
\* prices allowed (no hotel is priced below its predecessor), and holds no more than
\* top_n hotels.
C9_AscendingTopN ==
    ReturnedHotelList =>
        /\ Ascending(h_result.items)
        /\ Len(h_result.items) <= h_args.top_n

\* Three priced candidates arriving dearest first, two of them asked for.
C9_Witness ==
    /\ ReturnedHotelList
    /\ Len(hotels) = 3
    /\ hotels[1].price > hotels[2].price
    /\ h_args.top_n = 2
    /\ Len(h_result.items) = 2
    /\ h_result.items[1].price < h_result.items[2].price

-----------------------------------------------------------------------------
(* C10 *)

\* C10: a candidate whose rate lookup yields no price is dropped and the result
\* stays a list: whenever the initial city search is non-empty get_hotels returns
\* the list of the priced candidates (sorted, cut to top_n), and it returns the
\* "no hotels" error only when the initial search is empty.
C10_UnpricedCandidateDropped ==
    h_pc = "returned" =>
        /\ hotels_data # <<>> =>
              /\ IsList(h_result)
              /\ \A h \in Range(h_result.items) : h \in Range(hotels)
        /\ h_result = NoHotelsError => hotels_data = <<>>

=============================================================================
